---- MODULE Spec2Model ----
(***************************************************************************)
(* Model of qclic/axdriver: PCIe enumeration and driver dispatch           *)
(* (src/bus/pci.rs, src/drivers.rs) and the E1000E network device adapter  *)
(* with its KernelFunc bridge (src/e1000e.rs).                             *)
(***************************************************************************)
EXTENDS Integers, Sequences, FiniteSets, TLC

VARIABLES
    \* ---- PCIe enumeration and dispatch (AllDevices::probe_bus_devices)
    bus,        \* the functions root.enumerate() yields, in order
    registry,   \* the compiled-in driver types, in for_each_drivers! order
    cmd,        \* command register of each function
    next_fn,    \* index of the next function the for_each closure receives
    plog,       \* calls made so far, in program order
    devices,    \* device inventory: what add_device received, in order
    panicked    \* an unwrap() in E1000E::new aborted the enumeration

VARIABLES
    \* ---- the E1000E adapter in its Operational phase, and the driver core
    link_up,          \* the driver core's link state (E1000::is_link_up)
    rx_ring,          \* frames the hardware completed, not yet drained by clean_rx_irq
    hw_order,         \* every frame the hardware completed, in completion order
    nframes,          \* number of frames completed so far
    rx_buffer_queue,  \* E1000E::rx_buffer_queue: handles not yet delivered
    heap,             \* the Box<Vec<u8>> packet buffers ever allocated, by allocation number
    ntx,              \* number of alloc_tx_buffer calls so far
    held,             \* handles the network stack owns
    delivered,        \* payloads receive has returned, in order of return
    ret,              \* the last operation and what it returned
    ev                \* what the last operation did, in program order

VARIABLES
    \* ---- the KernelFunc bridge's DMA memory (KFun) and the global allocator
    dma_regions,   \* the allocator's live regions, each with the layout it was given
    dma_corrupt,   \* a dealloc did not match a live region: the allocator is damaged
    dma_held,      \* DMAInfo descriptors the driver core holds
    dma_snap,      \* the allocator's state before the latest dma_alloc_coherent
    dma_last       \* the last DMA operation: its kind, size and descriptor

VARIABLES
    \* ---- callers running E1000E operations concurrently, one step at a time
    lock_owner,  \* the caller holding the SpinNoIrq guard of E1000E::inner, 0 when free
    tpc,         \* where each caller is in the operation it runs
    top,         \* the operation each caller runs
    in_core,     \* the callers that entered a driver-core call and have not left it
    t_n,         \* the number of packets clean_rx_irq handed to each caller
    c_link,      \* the driver core's link state
    c_ring,      \* number of completed frames the driver core has not handed out
    c_queue      \* number of handles in rx_buffer_queue

VARIABLES
    \* ---- the KernelFunc bridge's view of the endpoint (KFun { pcie })
    cfg_space,   \* the endpoint's configuration space, byte by byte
    bars,        \* the endpoint's base address registers
    kf_last      \* the last KFun call, its argument and its outcome

pciVars == <<bus, registry, cmd, next_fn, plog, devices, panicked>>
netVars == <<link_up, rx_ring, hw_order, nframes, rx_buffer_queue, heap, ntx,
             held, delivered, ret, ev>>

dmaVars == <<dma_regions, dma_corrupt, dma_held, dma_snap, dma_last>>

concVars == <<lock_owner, tpc, top, in_core, t_n, c_link, c_ring, c_queue>>

kfVars == <<cfg_space, bars, kf_last>>

vars == <<pciVars, netVars, dmaVars, concVars, kfVars>>

\* what the operations of one part leave alone
nonPciVars == <<netVars, dmaVars, concVars, kfVars>>
nonNetVars == <<pciVars, dmaVars, concVars, kfVars>>
nonDmaVars == <<pciVars, netVars, concVars, kfVars>>
nonConcVars == <<pciVars, netVars, dmaVars, kfVars>>
nonKfVars == <<pciVars, netVars, dmaVars, concVars>>

(***************************************************************************)
(* Bounds of the model.                                                    *)
(***************************************************************************)
MaxBus == 2
MaxDrivers == 2
MaxFrames == 2
MaxTxBufs == 1
MaxDmaSize == 4
MaxDmaHeld == 2
MemTop == 8
MaxThreads == 2
MaxBars == 2
MaxBurst == 3

(***************************************************************************)
(* Program constants.                                                      *)
(***************************************************************************)
IO_ENABLE == 1
MEMORY_ENABLE == 2
BUS_MASTER_ENABLE == 4
INTEL_VID == 32902          \* 0x8086
E1000E_DID_82574L == 4307   \* 0x10D3
E1000E_DID_I219 == 3528     \* 0x0DC8
CMD_WIDTH == 16
RX_BUDGET == 64
QS == 64

\* bitwise OR of two naturals, as the | of CommandRegister flags computes it
RECURSIVE BitOr(_, _)
BitOr(a, b) ==
    IF a = 0 THEN b
    ELSE IF b = 0 THEN a
    ELSE (IF a % 2 = 1 \/ b % 2 = 1 THEN 1 ELSE 0) + 2 * BitOr(a \div 2, b \div 2)

\* bit k of the natural a
RECURSIVE Bit(_, _)
Bit(a, k) == IF k = 0 THEN a % 2 ELSE Bit(a \div 2, k - 1)

(***************************************************************************)
(* The synthetic bus.  Four endpoint identities (two E1000E parts, another *)
(* Intel part, one foreign device), command registers with assorted bits   *)
(* already set, and a bridge.                                              *)
(***************************************************************************)
EndpointIds == { <<INTEL_VID, E1000E_DID_82574L>>, <<INTEL_VID, E1000E_DID_I219>>,
                 <<INTEL_VID, 4110>>, <<6900, 4096>> }
CmdInits == {0, 5, 1088}

Functions ==
    [kind : {"Endpoint"}, id : EndpointIds, cmd0 : CmdInits]
    \cup [kind : {"Bridge"}, id : {<<INTEL_VID, 0>>}, cmd0 : {0}]

SeqsUpTo(S, n) == UNION { [1..k -> S] : k \in 1..n }

\* the driver types of drivers.rs that a build with the e1000 network device may
\* register: E1000Driver, and RamDiskDriver, which keeps the trait's default
\* probe_pcie
SrcDriverTypes == {"E1000Driver", "RamDiskDriver"}

\* any implementor of DriverProbe may be registered as well: CatchAllDriver stands
\* for one whose probe_pcie claims every endpoint it is shown
DriverTypes == SrcDriverTypes \cup {"CatchAllDriver"}

RegistriesOver(types) ==
    { r \in SeqsUpTo(types, MaxDrivers) :
        \A i, j \in 1..Len(r) : i # j => r[i] # r[j] }

Ev(e, o, d) == [ep |-> e, op |-> o, drv |-> d]

(***************************************************************************)
(* E1000E::new: the bring-up sequence.  outcome is what the driver core    *)
(* answers: "ok", "new_err" (E1000::new fails) or "open_err".              *)
(***************************************************************************)
BringUpOutcomes == {"ok", "new_err", "open_err"}

\* a bring-up that goes on after e1000.open answered Err, as `let _ = ..open(..)`
\* would
E1000E_new_ignore_open_err(e, d, outcome) ==
    LET pre == << Ev(e, "id", d), Ev(e, "interrupt", d),
                  Ev(e, "register_kernel", d), Ev(e, "E1000::new", d) >>
        mid == << Ev(e, "read_mac_addr_generic", d), Ev(e, "open", d) >>
        err == << Ev(e, "Err", d) >>
    IN  IF outcome = "new_err"
        THEN [dev |-> FALSE, panic |-> TRUE, log |-> pre \o err]
        ELSE IF outcome = "open_err"
        THEN [dev |-> TRUE, panic |-> FALSE, log |-> pre \o mid \o err]
        ELSE [dev |-> TRUE, panic |-> FALSE, log |-> pre \o mid]

\* the log entry "Err" marks a step that answered Err: the unwrap() on it panics
E1000E_new(e, d, outcome) ==
    LET pre == << Ev(e, "id", d), Ev(e, "interrupt", d),
                  Ev(e, "register_kernel", d), Ev(e, "E1000::new", d) >>
        mid == << Ev(e, "read_mac_addr_generic", d), Ev(e, "open", d) >>
        err == << Ev(e, "Err", d) >>
    IN  IF outcome = "new_err"
        THEN [dev |-> FALSE, panic |-> TRUE, log |-> pre \o err]
        ELSE IF outcome = "open_err"
        THEN [dev |-> FALSE, panic |-> TRUE, log |-> pre \o mid \o err]
        ELSE [dev |-> TRUE, panic |-> FALSE, log |-> pre \o mid]

\* a filter that looks at the vendor only
E1000Matches_vendor_only(id) == id[1] = INTEL_VID

\* E1000Driver::probe_pcie's filter
E1000Matches(id) ==
    id[1] = INTEL_VID /\ id[2] \in {E1000E_DID_82574L, E1000E_DID_I219}

\* Driver::probe_pcie for the driver type registered at position d
ProbePcie(e, d, outcome) ==
    LET id == bus[e].id
        call == << Ev(e, "probe_pcie", d) >>
        none == [dev |-> FALSE, panic |-> FALSE, log |-> call]
    IN  CASE registry[d] = "E1000Driver" ->
               IF E1000Matches(id)
               THEN LET r == E1000E_new(e, d, outcome)
                    IN  [r EXCEPT !.log = call \o r.log]
               ELSE none
          [] registry[d] = "CatchAllDriver" ->
               [dev |-> TRUE, panic |-> FALSE, log |-> call]
          [] OTHER -> none

\* a write of the three enable bits that forgets the register's old value
UpdateCommand_overwrite(c) ==
    BitOr(BitOr(IO_ENABLE, MEMORY_ENABLE), BUS_MASTER_ENABLE)

\* ep.update_command(|cmd| cmd | IO_ENABLE | MEMORY_ENABLE | BUS_MASTER_ENABLE)
UpdateCommand(c) ==
    BitOr(BitOr(BitOr(c, IO_ENABLE), MEMORY_ENABLE), BUS_MASTER_ENABLE)

(***************************************************************************)
(* for_each_drivers!(type Driver, { ... }): the block is expanded once per *)
(* registered driver type, in order; the block neither breaks nor returns, *)
(* so every driver type is probed unless a panic unwinds.                  *)
(***************************************************************************)
RECURSIVE ForEachDrivers(_, _, _, _)
ForEachDrivers(e, d, outcome, acc) ==
    IF d > Len(registry) \/ acc.panic THEN acc
    ELSE LET r == ProbePcie(e, d, outcome)
             reg == IF r.dev THEN << Ev(e, "add_device", d) >> ELSE << >>
         IN  ForEachDrivers(e, d + 1, outcome,
                 [log |-> acc.log \o r.log \o reg,
                  devs |-> IF r.dev THEN Append(acc.devs, [ep |-> e, drv |-> d])
                           ELSE acc.devs,
                  panic |-> r.panic])

PciInitOver(types) ==
    /\ bus \in SeqsUpTo(Functions, MaxBus)
    /\ registry \in RegistriesOver(types)
    /\ cmd = [i \in 1..Len(bus) |-> bus[i].cmd0]
    /\ next_fn = 1
    /\ plog = << >>
    /\ devices = << >>
    /\ panicked = FALSE

\* a closure without the `if let PciDevice::Endpoint` test: bridges are probed too
ProbeDevice_probe_bridges(outcome) ==
    /\ ~panicked
    /\ next_fn <= Len(bus)
    /\ LET e == next_fn IN
       IF TRUE
       THEN LET r == ForEachDrivers(e, 1, outcome,
                        [log |-> << Ev(e, "update_command", 0) >>,
                         devs |-> << >>, panic |-> FALSE])
            IN  /\ cmd' = [cmd EXCEPT ![e] = UpdateCommand(cmd[e])]
                /\ plog' = plog \o r.log
                /\ devices' = devices \o r.devs
                /\ panicked' = r.panic
       ELSE UNCHANGED <<cmd, plog, devices, panicked>>
    /\ next_fn' = next_fn + 1
    /\ UNCHANGED <<bus, registry>>
    /\ UNCHANGED nonPciVars

\* the closure of root.enumerate().for_each, applied to the next function
ProbeDevice(outcome) ==
    /\ ~panicked
    /\ next_fn <= Len(bus)
    /\ LET e == next_fn IN
       IF bus[e].kind = "Endpoint"
       THEN LET r == ForEachDrivers(e, 1, outcome,
                        [log |-> << Ev(e, "update_command", 0) >>,
                         devs |-> << >>, panic |-> FALSE])
            IN  /\ cmd' = [cmd EXCEPT ![e] = UpdateCommand(cmd[e])]
                /\ plog' = plog \o r.log
                /\ devices' = devices \o r.devs
                /\ panicked' = r.panic
       ELSE UNCHANGED <<cmd, plog, devices, panicked>>
    /\ next_fn' = next_fn + 1
    /\ UNCHANGED <<bus, registry>>
    /\ UNCHANGED nonPciVars

NextPci == \E outcome \in BringUpOutcomes : ProbeDevice(outcome)

(***************************************************************************)
(* The network device adapter.                                             *)
(***************************************************************************)
E(o, n, r) == [op |-> o, n |-> n, res |-> r]
Ret(o, v, b) == [op |-> o, val |-> v, buf |-> b]

\* errors E1000::xmit may answer with
XmitErrors == {"NoDescriptor", "LinkDown"}

Min(a, b) == IF a < b THEN a ELSE b

\* the k-th frame the hardware completes: its first byte is the frame's number,
\* and odd and even frames differ in length
FramePayload(k) == IF k % 2 = 1 THEN << k, 0 >> ELSE << k >>

\* the sizes the network stack asks alloc_tx_buffer for
TxSizes == {0, 2}

\* NetBufPtr::new(raw_ptr, buf_ptr, len); raw_ptr is the Box<Vec<u8>>
NetBufPtr(id, len) == [raw |-> id, len |-> len]

\* packet bytes seen through a handle
Packet(hp, h) == SubSeq(hp[h.raw].data, 1, h.len)

\* Box::new(vec): a fresh buffer, numbered by allocation
BoxNew(hp, data) ==
    hp \o << [live |-> TRUE, data |-> data, frees |-> 0, by |-> "none"] >>

\* drop(Box::from_raw(ptr.raw_ptr::<Vec<u8>>()))
DropBox(hp, id, who) ==
    [hp EXCEPT ![id] = [@ EXCEPT !.live = FALSE, !.frees = @ + 1, !.by = who]]

Zeros(n) == [i \in 1..n |-> 0]

NetInit ==
    /\ link_up \in BOOLEAN
    /\ rx_ring = << >>
    /\ hw_order = << >>
    /\ nframes = 0
    /\ rx_buffer_queue = << >>
    /\ heap = << >>
    /\ ntx = 0
    /\ held = {}
    /\ delivered = << >>
    /\ ret = Ret("new", "Ok", 0)
    /\ ev = << >>

NetIdle ==
    /\ link_up = FALSE
    /\ rx_ring = << >>
    /\ hw_order = << >>
    /\ nframes = 0
    /\ rx_buffer_queue = << >>
    /\ heap = << >>
    /\ ntx = 0
    /\ held = {}
    /\ delivered = << >>
    /\ ret = Ret("none", "none", 0)
    /\ ev = << >>

\* a readiness check that reports a down link without servicing interrupts
LinkReady_no_irq(name, after) ==
    /\ ev' = << E("lock", 0, ""),
                E("is_link_up", 0, IF link_up THEN "true" ELSE "false"),
                E("unlock", 0, "") >>
    /\ ret' = Ret(name, IF link_up THEN "true" ELSE "false", 0)
    /\ UNCHANGED link_up

\* the readiness check shared by can_transmit and can_receive:
\* lock; is_link_up; if down: irq_handle(1); is_link_up.  after is the link state
\* the interrupt service leaves behind.
LinkReady(name, after) ==
    IF link_up
    THEN /\ ev' = << E("lock", 0, ""), E("is_link_up", 0, "true"), E("unlock", 0, "") >>
         /\ ret' = Ret(name, "true", 0)
         /\ UNCHANGED link_up
    ELSE /\ link_up' = after
         /\ ev' = << E("lock", 0, ""), E("is_link_up", 0, "false"),
                     E("irq_handle", 1, ""),
                     E("is_link_up", 0, IF after THEN "true" ELSE "false"),
                     E("unlock", 0, "") >>
         /\ ret' = Ret(name, IF after THEN "true" ELSE "false", 0)

can_transmit ==
    /\ \E after \in BOOLEAN : LinkReady("can_transmit", after)
    /\ UNCHANGED <<rx_ring, hw_order, nframes, rx_buffer_queue, heap, ntx, held, delivered>>
    /\ UNCHANGED nonNetVars

can_receive ==
    /\ \E after \in BOOLEAN : LinkReady("can_receive", after)
    /\ UNCHANGED <<rx_ring, hw_order, nframes, rx_buffer_queue, heap, ntx, held, delivered>>
    /\ UNCHANGED nonNetVars

\* a transmit that hands the driver core's error to the caller unmapped
XmitResult_passthrough(res) == res

\* .map_err(|_e| DevError::Again), then r?; Ok(())
XmitResult(res) == IF res = "Ok" THEN "Ok" ELSE "Again"

\* a transmit whose r? precedes the drop: a failed xmit returns before the free
transmit_early_return(h, res) ==
    /\ h \in held
    /\ held' = held \ {h}
    /\ heap' = IF res = "Ok" THEN DropBox(heap, h.raw, "transmit") ELSE heap
    /\ ev' = << E("lock", 0, ""), E("xmit", h.len, res), E("unlock", 0, "") >>
             \o (IF res = "Ok" THEN << E("free", h.raw, "") >> ELSE << >>)
    /\ ret' = Ret("transmit", XmitResult(res), h.raw)
    /\ UNCHANGED <<link_up, rx_ring, hw_order, nframes, rx_buffer_queue, ntx, delivered>>
    /\ UNCHANGED nonNetVars

\* a transmit whose guard lives to the end of the function: the free happens
\* under the lock
transmit_drop_under_lock(h, res) ==
    /\ h \in held
    /\ held' = held \ {h}
    /\ heap' = DropBox(heap, h.raw, "transmit")
    /\ ev' = << E("lock", 0, ""), E("xmit", h.len, res), E("free", h.raw, ""),
                E("unlock", 0, "") >>
    /\ ret' = Ret("transmit", XmitResult(res), h.raw)
    /\ UNCHANGED <<link_up, rx_ring, hw_order, nframes, rx_buffer_queue, ntx, delivered>>
    /\ UNCHANGED nonNetVars

\* res is what E1000::xmit answers
transmit(h, res) ==
    /\ h \in held
    /\ held' = held \ {h}
    /\ heap' = DropBox(heap, h.raw, "transmit")
    /\ ev' = << E("lock", 0, ""), E("xmit", h.len, res), E("unlock", 0, ""),
                E("free", h.raw, "") >>
    /\ ret' = Ret("transmit", XmitResult(res), h.raw)
    /\ UNCHANGED <<link_up, rx_ring, hw_order, nframes, rx_buffer_queue, ntx, delivered>>
    /\ UNCHANGED nonNetVars

\* E1000::clean_rx_irq(budget): the completed frames, oldest first, at most budget
CleanRxIrq(ring, budget) ==
    LET n == Min(Len(ring), budget)
    IN  [pks |-> SubSeq(ring, 1, n), rest |-> SubSeq(ring, n + 1, Len(ring))]

\* a push on the wrong end of the queue
PushBack_front(q, h) == << h >> \o q

\* self.rx_buffer_queue.push_back(handle)
PushBack(q, h) == Append(q, h)

\* a loop that stops after its first iteration: only the first packet of the batch
\* gets a buffer and a handle
WrapPackets_first_only(pks, hp, q, log) ==
    IF pks = << >> THEN [heap |-> hp, queue |-> q, log |-> log]
    ELSE LET src == pks[1]
             hp1 == BoxNew(hp, src)
             id == Len(hp1)
         IN  [heap |-> hp1,
              queue |-> PushBack(q, NetBufPtr(id, Len(src))),
              log |-> Append(log, E("alloc", id, ""))]

\* the for loop of receive: each packet is copied into a fresh Box<Vec<u8>> and its
\* handle pushed on the back of the queue.  A run of iterations is computed as
\* its first half followed by its second half (the heap after a non-empty first
\* half is never empty: the test only settles the first half before the second is
\* started).
RECURSIVE WrapPackets(_, _, _, _)
WrapPackets(pks, hp, q, log) ==
    IF pks = << >> THEN [heap |-> hp, queue |-> q, log |-> log]
    ELSE IF Len(pks) = 1
    THEN LET src == pks[1]
             hp1 == BoxNew(hp, src)
             id == Len(hp1)
         IN  [heap |-> hp1,
              queue |-> PushBack(q, NetBufPtr(id, Len(src))),
              log |-> Append(log, E("alloc", id, ""))]
    ELSE LET m == Len(pks) \div 2
             w == WrapPackets(SubSeq(pks, 1, m), hp, q, log)
         IN  IF w.heap = << >> THEN w
             ELSE WrapPackets(SubSeq(pks, m + 1, Len(pks)), w.heap, w.queue, w.log)

\* receive, first branch: the queue holds a buffer; pop_front it
ReceiveQueued ==
    LET h == Head(rx_buffer_queue) IN
    /\ rx_buffer_queue' = Tail(rx_buffer_queue)
    /\ held' = held \cup {h}
    /\ delivered' = Append(delivered, Packet(heap, h))
    /\ ret' = Ret("receive", "Ok", h.raw)
    /\ ev' = << >>
    /\ UNCHANGED <<link_up, rx_ring, hw_order, nframes, heap, ntx>>

\* receive, !pks.is_empty(): wrap every packet, then pop_front
ReceiveBatch(pks, pre) ==
    LET w == WrapPackets(pks, heap, rx_buffer_queue, pre)
        h == Head(w.queue)
    IN  /\ heap' = w.heap
        /\ rx_buffer_queue' = Tail(w.queue)
        /\ held' = held \cup {h}
        /\ delivered' = Append(delivered, Packet(w.heap, h))
        /\ ret' = Ret("receive", "Ok", h.raw)
        /\ ev' = Append(w.log, E("unlock", 0, ""))

\* a receive that hands out an empty buffer when nothing was completed
ReceiveNone_empty_buffer(pre) ==
    LET hp1 == BoxNew(heap, << >>)
        h == NetBufPtr(Len(hp1), 0)
    IN  /\ heap' = hp1
        /\ held' = held \cup {h}
        /\ ret' = Ret("receive", "Ok", h.raw)
        /\ ev' = pre \o << E("alloc", h.raw, ""), E("unlock", 0, "") >>
        /\ UNCHANGED <<rx_buffer_queue, delivered>>

\* receive, pks.is_empty(): Err(DevError::Again)
ReceiveNone(pre) ==
    /\ ret' = Ret("receive", "Again", 0)
    /\ ev' = Append(pre, E("unlock", 0, ""))
    /\ UNCHANGED <<heap, rx_buffer_queue, held, delivered>>

\* a receive that polls the driver core whether or not the queue holds buffers
receive_poll_always ==
    /\ UNCHANGED nonNetVars
    /\ LET c == CleanRxIrq(rx_ring, RX_BUDGET)
           pre == << E("lock", 0, ""), E("clean_tx_irq", 0, ""),
                     E("clean_rx_irq", Len(c.pks), "") >>
       IN  /\ rx_ring' = c.rest
           /\ IF c.pks # << >> \/ rx_buffer_queue # << >>
              THEN ReceiveBatch(c.pks, pre) ELSE ReceiveNone(pre)
           /\ UNCHANGED <<link_up, hw_order, nframes, ntx>>

receive ==
    /\ UNCHANGED nonNetVars
    /\ IF rx_buffer_queue # << >>
       THEN ReceiveQueued
       ELSE LET c == CleanRxIrq(rx_ring, RX_BUDGET)
                pre == << E("lock", 0, ""), E("clean_tx_irq", 0, ""),
                          E("clean_rx_irq", Len(c.pks), "") >>
            IN  /\ rx_ring' = c.rest
                /\ IF c.pks # << >> THEN ReceiveBatch(c.pks, pre) ELSE ReceiveNone(pre)
                /\ UNCHANGED <<link_up, hw_order, nframes, ntx>>

\* a recycle that, like recycle_tx_buffers, only answers Ok
recycle_rx_buffer_noop(h) ==
    /\ h \in held
    /\ held' = held \ {h}
    /\ ret' = Ret("recycle_rx_buffer", "Ok", h.raw)
    /\ ev' = << >>
    /\ UNCHANGED <<link_up, rx_ring, hw_order, nframes, rx_buffer_queue, heap, ntx, delivered>>
    /\ UNCHANGED nonNetVars

recycle_rx_buffer(h) ==
    /\ h \in held
    /\ held' = held \ {h}
    /\ heap' = DropBox(heap, h.raw, "recycle_rx_buffer")
    /\ ret' = Ret("recycle_rx_buffer", "Ok", h.raw)
    /\ ev' = << E("free", h.raw, "") >>
    /\ UNCHANGED <<link_up, rx_ring, hw_order, nframes, rx_buffer_queue, ntx, delivered>>
    /\ UNCHANGED nonNetVars

alloc_tx_buffer(size) ==
    /\ ntx < MaxTxBufs
    /\ ntx' = ntx + 1
    /\ LET hp1 == BoxNew(heap, Zeros(size))
           h == NetBufPtr(Len(hp1), size)
       IN  /\ heap' = hp1
           /\ held' = held \cup {h}
           /\ ret' = Ret("alloc_tx_buffer", "Ok", h.raw)
           /\ ev' = << E("alloc", h.raw, "") >>
    /\ UNCHANGED <<link_up, rx_ring, hw_order, nframes, rx_buffer_queue, delivered>>
    /\ UNCHANGED nonNetVars

\* the hardware completes the reception of one more frame
HwRxComplete ==
    /\ nframes < MaxFrames
    /\ nframes' = nframes + 1
    /\ rx_ring' = Append(rx_ring, FramePayload(nframes + 1))
    /\ hw_order' = Append(hw_order, FramePayload(nframes + 1))
    /\ UNCHANGED <<link_up, rx_buffer_queue, heap, ntx, held, delivered, ret, ev>>
    /\ UNCHANGED nonNetVars

\* the cable is pulled
HwLinkDown ==
    /\ link_up
    /\ link_up' = FALSE
    /\ UNCHANGED <<rx_ring, hw_order, nframes, rx_buffer_queue, heap, ntx, held,
                   delivered, ret, ev>>
    /\ UNCHANGED nonNetVars

NextNet ==
    \/ can_transmit
    \/ can_receive
    \/ \E h \in held, res \in {"Ok"} \cup XmitErrors : transmit(h, res)
    \/ receive
    \/ \E h \in held : recycle_rx_buffer(h)
    \/ \E size \in TxSizes : alloc_tx_buffer(size)
    \/ HwRxComplete
    \/ HwLinkDown

\* fn rx_queue_size(&self) -> usize { QS }
rx_queue_size == QS

\* the device right after bring-up, when the hardware has already completed a
\* burst of frames that nobody has asked for yet
BurstInit ==
    /\ link_up = TRUE
    /\ nframes \in (RX_BUDGET - 1)..(RX_BUDGET + MaxBurst)
    /\ rx_ring = [k \in 1..nframes |-> FramePayload(k)]
    /\ hw_order = rx_ring
    /\ rx_buffer_queue = << >>
    /\ heap = << >>
    /\ ntx = 0
    /\ held = {}
    /\ delivered = << >>
    /\ ret = Ret("new", "Ok", 0)
    /\ ev = << >>

\* the network stack drains the burst, one receive after the other
NextBurst == receive

PciIdle ==
    /\ bus = << >>
    /\ registry = << >>
    /\ cmd = << >>
    /\ next_fn = 1
    /\ plog = << >>
    /\ devices = << >>
    /\ panicked = FALSE

(***************************************************************************)
(* KFun::dma_alloc_coherent / dma_free_coherent over the global allocator.  *)
(***************************************************************************)
RECURSIVE IsPowerOfTwo(_)
IsPowerOfTwo(n) ==
    IF n <= 0 THEN FALSE
    ELSE IF n = 1 THEN TRUE
    ELSE n % 2 = 0 /\ IsPowerOfTwo(n \div 2)

PowersOfTwo == { a \in 1..MemTop : IsPowerOfTwo(a) }

\* Layout::from_size_align_unchecked(size, size).  Its safety contract requires a
\* power-of-two alignment; for any other size the call is undefined behaviour and
\* the allocator may act on any alignment.
LayoutsOf(size) ==
    IF IsPowerOfTwo(size)
    THEN { [size |-> size, align |-> size] }
    ELSE { [size |-> size, align |-> a] : a \in PowersOfTwo }

Overlaps(r, addr, size) == addr < r.addr + r.size /\ r.addr < addr + size

\* where global_allocator().alloc(layout) may place the region
Placements(layout) ==
    { addr \in 0..(MemTop - layout.size) :
        /\ addr % layout.align = 0
        /\ \A r \in dma_regions : ~Overlaps(r, addr, layout.size) }

DMAInfo(ptr, size) == [dma_addr |-> ptr, cpu_addr |-> ptr, size |-> size]

AllocatorState == <<dma_regions, dma_corrupt>>

DmaInit ==
    /\ dma_regions = {}
    /\ dma_corrupt = FALSE
    /\ dma_held = {}
    /\ dma_snap = <<{}, FALSE>>
    /\ dma_last = [op |-> "none", size |-> 0, desc |-> DMAInfo(0, 0)]

\* dma_alloc_coherent(size); the unwrap() panics when the allocator has no room,
\* and nothing is returned
dma_alloc_coherent(size) ==
    /\ dma_last.op # "panic"
    /\ Cardinality(dma_held) < MaxDmaHeld
    /\ \E layout \in LayoutsOf(size) :
         IF Placements(layout) = {}
         THEN /\ dma_last' = [op |-> "panic", size |-> size, desc |-> DMAInfo(0, 0)]
              /\ UNCHANGED <<dma_regions, dma_corrupt, dma_held, dma_snap>>
         ELSE \E ptr \in Placements(layout) :
                /\ dma_regions' = dma_regions \cup
                       {[addr |-> ptr, size |-> layout.size, align |-> layout.align]}
                /\ dma_held' = dma_held \cup {DMAInfo(ptr, size)}
                /\ dma_snap' = AllocatorState
                /\ dma_last' = [op |-> "alloc", size |-> size, desc |-> DMAInfo(ptr, size)]
                /\ UNCHANGED dma_corrupt
    /\ UNCHANGED nonDmaVars

\* global_allocator().dealloc(ptr, layout): releases the live region at ptr when
\* the layout is the one it was allocated with
Dealloc(ptr, layout) ==
    LET r == [addr |-> ptr, size |-> layout.size, align |-> layout.align]
    IN  IF r \in dma_regions
        THEN /\ dma_regions' = dma_regions \ {r}
             /\ UNCHANGED dma_corrupt
        ELSE /\ dma_corrupt' = TRUE
             /\ UNCHANGED dma_regions

\* dma_free_coherent(dma), for a descriptor the driver core got from
\* dma_alloc_coherent and has not freed
dma_free_coherent(dma) ==
    /\ dma_last.op # "panic"
    /\ dma \in dma_held
    /\ dma_held' = dma_held \ {dma}
    /\ \E layout \in LayoutsOf(dma.size) : Dealloc(dma.cpu_addr, layout)
    /\ dma_last' = [op |-> IF dma_last.op = "alloc" /\ dma_last.desc = dma
                           THEN "free_of_alloc" ELSE "free",
                    size |-> dma.size, desc |-> dma]
    /\ UNCHANGED dma_snap
    /\ UNCHANGED nonDmaVars

NextDma ==
    \/ \E size \in 1..MaxDmaSize : dma_alloc_coherent(size)
    \/ \E dma \in dma_held : dma_free_coherent(dma)

(***************************************************************************)
(* can_transmit, can_receive, transmit and receive run by concurrent       *)
(* callers, one program step at a time.  A driver-core call is entered and *)
(* left in two steps, so that two callers can be seen inside the core.     *)
(***************************************************************************)
Threads == 1..MaxThreads

ConcOps == {"can_transmit", "can_receive", "transmit", "receive"}

\* the driver-core calls: is_link_up, irq_handle, xmit, clean_tx_irq, clean_rx_irq
\* ("is_link_up_2" is the second is_link_up of the link-readiness check)
CoreCalls == {"is_link_up", "irq_handle", "is_link_up_2", "xmit",
              "clean_tx_irq", "clean_rx_irq"}

\* the first statement of each operation
FirstStep(op) == IF op = "receive" THEN "rx_check" ELSE "lock"

\* the driver-core call that follows self.inner.lock() in each operation
AfterLock(op) ==
    CASE op \in {"can_transmit", "can_receive"} -> "is_link_up"
      [] op = "transmit" -> "xmit"
      [] op = "receive" -> "clean_tx_irq"

\* receive's else branch calls the core without taking the guard
AfterRxCheck_no_lock(queued) == IF queued THEN "idle" ELSE "clean_tx_irq"

\* receive: `if !self.rx_buffer_queue.is_empty()` returns the head, the else
\* branch starts with self.inner.lock()
AfterRxCheck(queued) == IF queued THEN "idle" ELSE "lock"

\* what follows the guard's drop: transmit still frees the buffer
AfterUnlock(op) == IF op = "transmit" THEN "drop" ELSE "idle"

ConcIdle ==
    /\ lock_owner = 0
    /\ tpc = [t \in Threads |-> "idle"]
    /\ top = [t \in Threads |-> "none"]
    /\ in_core = {}
    /\ t_n = [t \in Threads |-> 0]
    /\ c_link = FALSE
    /\ c_ring = 0
    /\ c_queue = 0

ConcInit ==
    /\ lock_owner = 0
    /\ tpc = [t \in Threads |-> "idle"]
    /\ top = [t \in Threads |-> "none"]
    /\ in_core = {}
    /\ t_n = [t \in Threads |-> 0]
    /\ c_link \in BOOLEAN
    /\ c_ring = 0
    /\ c_queue = 0

Goto(t, label) == tpc' = [tpc EXCEPT ![t] = label]

\* a caller enters one of the four operations
Call(t, op) ==
    /\ tpc[t] = "idle"
    /\ top' = [top EXCEPT ![t] = op]
    /\ Goto(t, FirstStep(op))
    /\ UNCHANGED <<lock_owner, in_core, t_n, c_link, c_ring, c_queue>>
    /\ UNCHANGED nonConcVars

\* receive: the test of rx_buffer_queue, and pop_front when it is not empty
RxCheck(t) ==
    /\ tpc[t] = "rx_check"
    /\ c_queue' = IF c_queue > 0 THEN c_queue - 1 ELSE c_queue
    /\ Goto(t, AfterRxCheck(c_queue > 0))
    /\ UNCHANGED <<lock_owner, top, in_core, t_n, c_link, c_ring>>
    /\ UNCHANGED nonConcVars

\* self.inner.lock(): spins until the guard is free
Lock(t) ==
    /\ tpc[t] = "lock"
    /\ lock_owner = 0
    /\ lock_owner' = t
    /\ Goto(t, AfterLock(top[t]))
    /\ UNCHANGED <<top, in_core, t_n, c_link, c_ring, c_queue>>
    /\ UNCHANGED nonConcVars

\* the caller enters the driver-core call it stands at
CoreEnter(t) ==
    /\ tpc[t] \in CoreCalls
    /\ t \notin in_core
    /\ in_core' = in_core \cup {t}
    /\ UNCHANGED <<lock_owner, tpc, top, t_n, c_link, c_ring, c_queue>>
    /\ UNCHANGED nonConcVars

\* the driver-core call returns and the operation goes on
CoreLeave(t) ==
    /\ t \in in_core
    /\ in_core' = in_core \ {t}
    /\ CASE tpc[t] = "is_link_up" ->
              /\ Goto(t, IF c_link THEN "unlock" ELSE "irq_handle")
              /\ UNCHANGED <<t_n, c_link, c_ring>>
         [] tpc[t] = "irq_handle" ->
              /\ c_link' \in BOOLEAN
              /\ Goto(t, "is_link_up_2")
              /\ UNCHANGED <<t_n, c_ring>>
         [] tpc[t] = "is_link_up_2" ->
              /\ Goto(t, "unlock")
              /\ UNCHANGED <<t_n, c_link, c_ring>>
         [] tpc[t] = "xmit" ->
              /\ Goto(t, "unlock")
              /\ UNCHANGED <<t_n, c_link, c_ring>>
         [] tpc[t] = "clean_tx_irq" ->
              /\ Goto(t, "clean_rx_irq")
              /\ UNCHANGED <<t_n, c_link, c_ring>>
         [] tpc[t] = "clean_rx_irq" ->
              /\ t_n' = [t_n EXCEPT ![t] = c_ring]
              /\ c_ring' = 0
              /\ Goto(t, IF c_ring > 0 THEN "wrap" ELSE "unlock")
              /\ UNCHANGED c_link
    /\ UNCHANGED <<lock_owner, top, c_queue>>
    /\ UNCHANGED nonConcVars

\* receive: the loop that boxes every packet and pushes its handle, then pop_front
Wrap(t) ==
    /\ tpc[t] = "wrap"
    /\ c_queue' = c_queue + t_n[t] - 1
    /\ t_n' = [t_n EXCEPT ![t] = 0]
    /\ Goto(t, "unlock")
    /\ UNCHANGED <<lock_owner, top, in_core, c_link, c_ring>>
    /\ UNCHANGED nonConcVars

\* the guard is dropped
Unlock(t) ==
    /\ tpc[t] = "unlock"
    /\ lock_owner' = 0
    /\ Goto(t, AfterUnlock(top[t]))
    /\ UNCHANGED <<top, in_core, t_n, c_link, c_ring, c_queue>>
    /\ UNCHANGED nonConcVars

\* transmit: drop(Box::from_raw(..)) after the statement that held the guard
Drop(t) ==
    /\ tpc[t] = "drop"
    /\ Goto(t, "idle")
    /\ UNCHANGED <<lock_owner, top, in_core, t_n, c_link, c_ring, c_queue>>
    /\ UNCHANGED nonConcVars

\* the hardware completes a frame
HwFrame ==
    /\ c_ring + c_queue < MaxFrames
    /\ c_ring' = c_ring + 1
    /\ UNCHANGED <<lock_owner, tpc, top, in_core, t_n, c_link, c_queue>>
    /\ UNCHANGED nonConcVars

NextConc ==
    \/ \E t \in Threads, op \in ConcOps : Call(t, op)
    \/ \E t \in Threads : RxCheck(t)
    \/ \E t \in Threads : Lock(t)
    \/ \E t \in Threads : CoreEnter(t)
    \/ \E t \in Threads : CoreLeave(t)
    \/ \E t \in Threads : Wrap(t)
    \/ \E t \in Threads : Unlock(t)
    \/ \E t \in Threads : Drop(t)
    \/ HwFrame

(***************************************************************************)
(* KFun: the KernelFunc bridge over the endpoint handle.                   *)
(***************************************************************************)
\* configuration space images: the first CfgLen bytes, dword by dword
CfgDwords == { <<1, 2, 3, 4>>, <<5, 6, 7, 8>>, <<255, 0, 16, 32>> }
CfgImages == { a \o b : a, b \in CfgDwords }
CfgLen == 8

\* the offsets the driver core may pass: those of the 16-bit registers whose
\* dword lies in the image
CfgOffsets == { o \in 0..(CfgLen - 4) : o % 2 = 0 }

\* the u32 made of the four bytes at off, as it lies in memory on a
\* little-endian target: lowest byte first
DwordAt(space, off) == SubSeq(space, off + 1, off + 4)

\* self.pcie.read(address, offset): a 32-bit configuration read.  offset is
\* passed on as it came; for an offset that is not a multiple of 4 the access is
\* misaligned, and it may deliver the dword containing the offset, the four bytes
\* starting at the offset, or fault.
ReadModes == {"containing", "unaligned", "fault"}

Read32(space, off, mode) ==
    IF off % 4 = 0 THEN [out |-> "ret", val |-> DwordAt(space, off)]
    ELSE CASE mode = "containing" ->
                [out |-> "ret", val |-> DwordAt(space, off - (off % 4))]
           [] mode = "unaligned" -> [out |-> "ret", val |-> DwordAt(space, off)]
           [] OTHER -> [out |-> "fault", val |-> <<0, 0, 0, 0>>]

\* `&dword as *const u32 as usize as *const u16`, dereferenced: the two bytes at
\* the dword's own address, its low half on the little-endian targets
FirstHalf(dword) == dword[1] + 256 * dword[2]

\* the bars of an endpoint: slot n holds a memory BAR, an I/O BAR, or nothing
BarValues ==
    { [kind |-> "None", address |-> 0],
      [kind |-> "Memory32", address |-> 4096],
      [kind |-> "Memory64", address |-> 4096],
      [kind |-> "Memory64", address |-> 1073741824 + 8192],
      [kind |-> "Io", address |-> 49152] }

\* self.pcie.bar(n): None for a slot the endpoint does not implement
BarAt(n) == IF n \in DOMAIN bars THEN bars[n] ELSE [kind |-> "None", address |-> 0]

\* axhal::mem::phys_to_virt: the kernel's linear mapping
PHYS_VIRT_OFFSET == 65536
PhysToVirt(paddr) == paddr + PHYS_VIRT_OFFSET

KfCall(o, a, r) == [op |-> o, arg |-> a, out |-> r.out, val |-> r.val]

\* a match that maps an I/O BAR's port like a memory address
BarNRemapResult_io_as_address(bar) ==
    CASE bar.kind = "None" -> [out |-> "panic", val |-> 0]
      [] OTHER -> [out |-> "ret", val |-> PhysToVirt(bar.address)]

\* the body of bar_n_remap: unwrap() of the BAR, the match, phys_to_virt
BarNRemapResult(bar) ==
    CASE bar.kind = "None" -> [out |-> "panic", val |-> 0]
      [] bar.kind = "Memory32" -> [out |-> "ret", val |-> PhysToVirt(bar.address)]
      [] bar.kind = "Memory64" -> [out |-> "ret", val |-> PhysToVirt(bar.address)]
      [] bar.kind = "Io" -> [out |-> "panic", val |-> 0]

KfIdle ==
    /\ cfg_space = << >>
    /\ bars = << >>
    /\ kf_last = [op |-> "none", arg |-> 0, out |-> "none", val |-> 0]

KfInit ==
    /\ cfg_space \in CfgImages
    /\ bars \in [0..(MaxBars - 1) -> BarValues]
    /\ kf_last = [op |-> "none", arg |-> 0, out |-> "none", val |-> 0]

\* a panic or a fault ends the kernel: no call follows it
KfRunning == kf_last.out \notin {"panic", "fault"}

bar_n_remap(n) ==
    /\ KfRunning
    /\ kf_last' = KfCall("bar_n_remap", n, BarNRemapResult(BarAt(n)))
    /\ UNCHANGED <<cfg_space, bars>>
    /\ UNCHANGED nonKfVars

pci_read_config_word(offset) ==
    /\ KfRunning
    /\ \E mode \in ReadModes :
         LET r == Read32(cfg_space, offset, mode)
         IN  kf_last' = KfCall("pci_read_config_word", offset,
                               IF r.out = "ret"
                               THEN [out |-> "ret", val |-> FirstHalf(r.val)]
                               ELSE [out |-> r.out, val |-> 0])
    /\ UNCHANGED <<cfg_space, bars>>
    /\ UNCHANGED nonKfVars

NextKf ==
    \/ \E n \in 0..MaxBars : bar_n_remap(n)
    \/ \E offset \in CfgOffsets : pci_read_config_word(offset)

InitPci == PciInitOver(DriverTypes) /\ NetIdle /\ DmaInit /\ ConcIdle /\ KfIdle
InitPciSrc == PciInitOver(SrcDriverTypes) /\ NetIdle /\ DmaInit /\ ConcIdle /\ KfIdle
InitNet == PciIdle /\ NetInit /\ DmaInit /\ ConcIdle /\ KfIdle
InitDma == PciIdle /\ NetIdle /\ DmaInit /\ ConcIdle /\ KfIdle

\* enumeration under any registry of DriverProbe implementors
SpecPci == InitPci /\ [][NextPci]_vars

\* enumeration under the registries made of the driver types of drivers.rs
SpecPciSrc == InitPciSrc /\ [][NextPci]_vars

\* the for_each loop of probe_bus_devices keeps running until it is done
SpecPciFair == InitPci /\ [][NextPci]_vars /\ WF_vars(NextPci)

SpecNet == InitNet /\ [][NextNet]_vars

SpecDma == InitDma /\ [][NextDma]_vars

InitConc == PciIdle /\ NetIdle /\ DmaInit /\ ConcInit /\ KfIdle

\* concurrent callers of one E1000E
SpecConc == InitConc /\ [][NextConc]_vars

InitBurst == PciIdle /\ BurstInit /\ DmaInit /\ ConcIdle /\ KfIdle

\* receive after a burst larger than one poll takes
SpecBurst == InitBurst /\ [][NextBurst]_vars

InitKf == PciIdle /\ NetIdle /\ DmaInit /\ ConcIdle /\ KfInit

\* the driver core calling the KernelFunc bridge of one endpoint
SpecKf == InitKf /\ [][NextKf]_vars

(***************************************************************************)
(* Properties of the enumeration and dispatch.                             *)
(***************************************************************************)
\* whether a driver type's probe_pcie filter accepts an endpoint identity
Claims(type, id) ==
    CASE type = "E1000Driver" -> E1000Matches(id)
      [] type = "CatchAllDriver" -> TRUE
      [] OTHER -> FALSE

DevicesOf(e) == { i \in DOMAIN devices : devices[i].ep = e }

C2_StopsAtFirstSuccess ==
    \A i, j \in DOMAIN plog :
        (i < j /\ plog[i].ep = plog[j].ep /\ plog[j].op = "probe_pcie") =>
            /\ plog[i].op = "probe_pcie" => plog[i].drv < plog[j].drv
            /\ plog[i].op # "add_device"

EnableBit(k) ==
    Bit(IO_ENABLE, k) = 1 \/ Bit(MEMORY_ENABLE, k) = 1 \/ Bit(BUS_MASTER_ENABLE, k) = 1

\* C10: every visited endpoint's command register holds its old value with the
\* I/O, memory and bus-master enable bits set and every other bit as it was, and
\* in program order its one update_command precedes every probe_pcie for it.
C10_CommandBitsSetBeforeProbe ==
    \A e \in DOMAIN bus :
        bus[e].kind = "Endpoint" =>
            /\ e < next_fn =>
                 /\ \A k \in 0..(CMD_WIDTH - 1) :
                        Bit(cmd[e], k) = IF EnableBit(k) THEN 1 ELSE Bit(bus[e].cmd0, k)
                 /\ cmd[e] < 2 ^ CMD_WIDTH
                 /\ Cardinality({ i \in DOMAIN plog :
                        plog[i].ep = e /\ plog[i].op = "update_command" }) = 1
            /\ e >= next_fn => cmd[e] = bus[e].cmd0
            /\ \A j \in DOMAIN plog :
                 (plog[j].ep = e /\ plog[j].op = "probe_pcie") =>
                    \E i \in 1..(j - 1) : plog[i].ep = e /\ plog[i].op = "update_command"

\* an endpoint whose register had other bits set was updated and then probed
C10_Witness ==
    \E e \in DOMAIN bus :
        /\ bus[e].kind = "Endpoint" /\ bus[e].cmd0 = 1088 /\ cmd[e] = 1095
        /\ \E j \in DOMAIN plog : plog[j].ep = e /\ plog[j].op = "probe_pcie"

(***************************************************************************)
(* Properties of the network device adapter.                               *)
(***************************************************************************)
EventsOf(o) == { i \in DOMAIN ev : ev[i].op = o }

\* C3: when transmit has returned, whether xmit succeeded or failed, the buffer
\* behind tx_buf has been freed exactly once.
C3_TransmitFreesExactlyOnce ==
    ret.op = "transmit" =>
        /\ heap[ret.buf].frees = 1
        /\ ~heap[ret.buf].live
        /\ Cardinality({ i \in EventsOf("free") : ev[i].n = ret.buf }) = 1

\* a transmit whose xmit failed has returned
C3_Witness ==
    /\ ret.op = "transmit" /\ ret.val = "Again"
    /\ \E i \in EventsOf("xmit") : ev[i].res = "NoDescriptor"

\* C4: transmit returns Ok exactly when xmit succeeded, and for every xmit
\* failure, whatever its cause, it returns DevError::Again.
C4_TransmitOkOrAgain ==
    ret.op = "transmit" =>
        /\ Cardinality(EventsOf("xmit")) = 1
        /\ \A i \in EventsOf("xmit") :
             /\ ret.val = "Ok" <=> ev[i].res = "Ok"
             /\ ev[i].res # "Ok" => ret.val = "Again"

\* a transmit failed because the link was down and returned Again
C4_Witness ==
    /\ ret.op = "transmit" /\ ret.val = "Again"
    /\ \E i \in EventsOf("xmit") : ev[i].res = "LinkDown"

QueuedPackets == [i \in DOMAIN rx_buffer_queue |-> Packet(heap, rx_buffer_queue[i])]

\* C5: what receive has returned, then what the queue holds, then what the driver
\* core has not yet reported, is the hardware's completion order; each successful
\* receive returns the next frame, and receive returns Again only when it found
\* the queue empty and the driver core reported no frame.
C5_ReceiveFifo ==
    /\ delivered \o QueuedPackets \o rx_ring = hw_order
    /\ ret.op = "receive" /\ ret.val = "Ok" =>
         /\ delivered # << >>
         /\ heap[ret.buf].data = delivered[Len(delivered)]
    /\ ret.op = "receive" /\ ret.val = "Again" =>
         /\ rx_buffer_queue = << >>
         /\ \E i \in EventsOf("clean_rx_irq") : ev[i].n = 0

\* a batch of two frames was drained: the second receive was served from the
\* queue and returned frame 2
C5_Witness ==
    /\ ret.op = "receive" /\ ret.val = "Ok" /\ ev = << >>
    /\ Len(delivered) = 2 /\ delivered = hw_order
    /\ rx_buffer_queue = << >>

\* C6: a receive that finds the queue empty and is told of no completed frame
\* returns Again, allocates nothing and leaves the queue empty.
C6_ReceiveAgainNoAlloc ==
    [][ (receive /\ rx_buffer_queue = << >> /\ rx_ring = << >>) =>
            /\ ret'.op = "receive" /\ ret'.val = "Again"
            /\ heap' = heap
            /\ { i \in DOMAIN ev' : ev'[i].op = "alloc" } = {}
            /\ rx_buffer_queue' = << >> ]_vars

\* receive has returned Again after a poll that reported no frame
C6_Witness ==
    /\ ret.op = "receive" /\ ret.val = "Again"
    /\ \E i \in EventsOf("clean_rx_irq") : ev[i].n = 0

\* C7: in can_transmit and can_receive alike, a first link read of "up" returns
\* true with no irq_handle call; a first read of "down" is followed by exactly one
\* irq_handle call and a second read, whose value is returned.
C7_LinkReadiness ==
    ret.op \in {"can_transmit", "can_receive"} =>
        LET reads == EventsOf("is_link_up")
            irqs == EventsOf("irq_handle")
            first == CHOOSE i \in reads : \A j \in reads : i <= j
            last == CHOOSE i \in reads : \A j \in reads : j <= i
        IN  /\ reads # {}
            /\ ev[first].res = "true" =>
                 /\ ret.val = "true" /\ irqs = {} /\ Cardinality(reads) = 1
            /\ ev[first].res = "false" =>
                 /\ Cardinality(irqs) = 1 /\ Cardinality(reads) = 2
                 /\ \A i \in irqs : first < i /\ i < last
                 /\ ret.val = ev[last].res

\* can_receive found the link down, serviced interrupts once and saw it up
C7_Witness ==
    /\ ret.op = "can_receive" /\ ret.val = "true"
    /\ EventsOf("irq_handle") # {}

InQueue(id) == Cardinality({ i \in DOMAIN rx_buffer_queue : rx_buffer_queue[i].raw = id })
InStack(id) == Cardinality({ h \in held : h.raw = id })

\* C8: every packet buffer is in exactly one place: the receive queue, the network
\* stack, or reclaimed; it is reclaimed at most once, by recycle_rx_buffer or
\* by transmit, as soon as the stack has passed it to one of them; and
\* recycle_rx_buffer answers Ok.
C8_ExactlyOneOwner ==
    /\ \A id \in DOMAIN heap :
         /\ InQueue(id) + InStack(id) + heap[id].frees = 1
         /\ heap[id].live <=> heap[id].frees = 0
         /\ heap[id].frees = 1 <=> heap[id].by \in {"recycle_rx_buffer", "transmit"}
    /\ \A h \in held : h.raw \in DOMAIN heap
    /\ \A i \in DOMAIN rx_buffer_queue : rx_buffer_queue[i].raw \in DOMAIN heap
    /\ ret.op = "recycle_rx_buffer" => ret.val = "Ok" /\ heap[ret.buf].by = "recycle_rx_buffer"

\* one buffer was reclaimed by recycle_rx_buffer, another by transmit, and a third
\* is still owned by the stack or the queue
C8_Witness ==
    /\ \E a, b \in DOMAIN heap :
         heap[a].by = "recycle_rx_buffer" /\ heap[b].by = "transmit"
    /\ \E c \in DOMAIN heap : heap[c].live

(***************************************************************************)
(* Properties of the DMA memory of the KernelFunc bridge.                  *)
(***************************************************************************)
\* C9: for every size S, the descriptor dma_alloc_coherent(S) returns has size S
\* and equal device-visible and host-visible addresses, and freeing it right away
\* releases the region under the layout it was allocated with, leaving the
\* allocator as it was before the allocation.
C9_DmaRoundTrip ==
    /\ dma_last.op = "alloc" =>
         /\ dma_last.desc.size = dma_last.size
         /\ dma_last.desc.dma_addr = dma_last.desc.cpu_addr
    /\ dma_last.op = "free_of_alloc" => AllocatorState = dma_snap

\* the round trip for a power-of-two size, where the layout is valid
RoundTripPowerOfTwo ==
    (dma_last.op = "free_of_alloc" /\ IsPowerOfTwo(dma_last.size)) =>
        AllocatorState = dma_snap

\* C11: in any interleaving of concurrent can_transmit, can_receive, transmit and
\* receive calls, a caller that is inside a driver-core call (is_link_up,
\* irq_handle, xmit, clean_tx_irq, clean_rx_irq) holds the device state lock, so
\* at most one caller is inside the driver core at any time.
C11_CoreCallsUnderLock ==
    /\ \A t \in in_core : tpc[t] \in CoreCalls /\ lock_owner = t
    /\ \A t \in Threads : tpc[t] \in CoreCalls => lock_owner = t
    /\ Cardinality(in_core) <= 1

\* one caller is inside xmit while another one, in receive, spins on the lock
C11_Witness ==
    \E t, u \in Threads :
        /\ t # u
        /\ t \in in_core /\ tpc[t] = "xmit"
        /\ top[u] = "receive" /\ tpc[u] = "lock"

\* the functions that were passed to some driver's probe_pcie
Offered == { plog[i].ep : i \in { j \in DOMAIN plog : plog[j].op = "probe_pcie" } }

\* the endpoints root.enumerate() has yielded so far
YieldedEndpoints == { e \in 1..(next_fn - 1) : bus[e].kind = "Endpoint" }

Probed(e, d) == \E i \in DOMAIN plog : plog[i] = Ev(e, "probe_pcie", d)

\* C12: the functions offered to driver probes are exactly the endpoints the
\* enumeration yielded (a bridge is never passed to probe_pcie); an endpoint that
\* no driver claims is not an error: it was shown to every registered driver, only
\* the bring-up of a claimed endpoint can abort, and the enumeration goes on to
\* every later function and ends.
C12_EndpointsDispatched ==
    /\ [](/\ Offered = YieldedEndpoints
          /\ \A e \in YieldedEndpoints :
                DevicesOf(e) = {} /\ ~(panicked /\ e = next_fn - 1)
                    => \A d \in DOMAIN registry : Probed(e, d)
          /\ panicked => \E d \in DOMAIN registry :
                            Claims(registry[d], bus[next_fn - 1].id))
    /\ <>(panicked \/ next_fn = Len(bus) + 1)

\* a bridge and an endpoint nobody claims were passed over, and the endpoint after
\* them was still offered to the drivers
C12_Witness ==
    /\ Len(bus) = 2 /\ next_fn = 3
    /\ bus[1].kind = "Endpoint" /\ DevicesOf(1) = {}
    /\ \A d \in DOMAIN registry : ~Claims(registry[d], bus[1].id)
    /\ bus[2].kind = "Endpoint" /\ 2 \in Offered

\* the 16-bit configuration word at a byte offset
WordAt(space, off) == space[off + 1] + 256 * space[off + 2]

\* C13: for every byte offset, pci_read_config_word returns the 16-bit
\* configuration word at that offset (the low half of the containing dword when
\* offset mod 4 = 0, the high half when offset mod 4 = 2).
C13_ConfigWordAtOffset ==
    kf_last.op = "pci_read_config_word" =>
        /\ kf_last.out = "ret"
        /\ kf_last.val = WordAt(cfg_space, kf_last.arg)

\* C14: bar_n_remap(N) returns physical_to_virtual(base of BAR N) when BAR N is a
\* 32-bit or 64-bit memory BAR; for an I/O BAR or an absent BAR it aborts and
\* returns no address.
C14_BarRemap ==
    kf_last.op = "bar_n_remap" =>
        LET bar == BarAt(kf_last.arg)
        IN  IF bar.kind \in {"Memory32", "Memory64"}
            THEN /\ kf_last.out = "ret"
                 /\ kf_last.val = bar.address + PHYS_VIRT_OFFSET
                 /\ kf_last.val # bar.address
            ELSE kf_last.out = "panic"

\* bar_n_remap was called on an I/O BAR and aborted
C14_Witness ==
    /\ kf_last.op = "bar_n_remap"
    /\ BarAt(kf_last.arg).kind = "Io"
    /\ kf_last.out = "panic"

\* the calls driver d made for endpoint e, in program order
RECURSIVE OpsOf(_, _, _)
OpsOf(log, e, d) ==
    IF log = << >> THEN << >>
    ELSE IF Head(log).ep = e /\ Head(log).drv = d
         THEN << Head(log).op >> \o OpsOf(Tail(log), e, d)
         ELSE OpsOf(Tail(log), e, d)

BringUpSteps == << "probe_pcie", "id", "interrupt", "register_kernel", "E1000::new",
                   "read_mac_addr_generic", "open" >>

Registered(e, d) == \E i \in DOMAIN devices : devices[i] = [ep |-> e, drv |-> d]

\* C15: E1000E::new registers the hardware adapter, constructs the driver core,
\* reads the MAC address and opens the device, in this order; a device object
\* exists (is returned and registered) only after every step succeeded; a failed
\* construction or open leaves no device object; and the bring-up runs at most
\* once per endpoint.
C15_BringUpOrder ==
    \A e \in DOMAIN bus : \A d \in DOMAIN registry :
        registry[d] = "E1000Driver" =>
            LET ops == OpsOf(plog, e, d)
            IN  /\ \/ ops = << >>
                   \/ ops = << "probe_pcie" >>
                   \/ ops = BringUpSteps \o << "add_device" >>
                   \/ ops = SubSeq(BringUpSteps, 1, 5) \o << "Err" >>
                   \/ ops = BringUpSteps \o << "Err" >>
                /\ Registered(e, d) <=> ops = BringUpSteps \o << "add_device" >>
                /\ (\E i \in DOMAIN ops : ops[i] = "Err") => panicked /\ ~Registered(e, d)

\* one endpoint went through the whole bring-up and its device was registered,
\* another one's open failed and left nothing
C15_Witness ==
    \E e1, e2 \in DOMAIN bus : \E d \in DOMAIN registry :
        /\ registry[d] = "E1000Driver"
        /\ Registered(e1, d)
        /\ OpsOf(plog, e2, d) = BringUpSteps \o << "Err" >>
        /\ ~Registered(e2, d)

\* event i of the last operation happened while the operation held the lock
LockedAt(i) ==
    \E l \in 1..(i - 1) :
        /\ ev[l].op = "lock"
        /\ \A k \in (l + 1)..(i - 1) : ev[k].op # "unlock"

CoreEvents ==
    { i \in DOMAIN ev :
        ev[i].op \in {"is_link_up", "irq_handle", "xmit", "clean_tx_irq", "clean_rx_irq"} }

OperationalOps == {"can_transmit", "can_receive", "transmit", "receive",
                   "recycle_rx_buffer", "alloc_tx_buffer"}

\* the statement of C16 as written: every operational-phase operation
\* (link-readiness check, transmit, receive, recycle_rx_buffer, alloc_tx_buffer)
\* acquires the device state lock and holds it for the whole call, a receive
\* served from a non-empty queue included.
C16_LockForWholeCall ==
    ret.op \in OperationalOps =>
        /\ ev # << >>
        /\ ev[1].op = "lock"
        /\ ev[Len(ev)].op = "unlock"

\* C16, amended: an operation that calls the driver core (a link-readiness check,
\* transmit, a receive that finds the queue empty) acquires the device state lock
\* once, before its first driver-core call, and holds it across all of them;
\* transmit releases it before it frees the buffer.  recycle_rx_buffer,
\* alloc_tx_buffer and a receive served from the queue call no driver-core
\* operation and never acquire the lock.
C16_LockAroundCoreCalls ==
    ret.op \in OperationalOps =>
        IF CoreEvents # {}
        THEN /\ ret.op \in {"can_transmit", "can_receive", "transmit", "receive"}
             /\ ev[1].op = "lock"
             /\ Cardinality(EventsOf("lock")) = 1
             /\ Cardinality(EventsOf("unlock")) = 1
             /\ \A i \in CoreEvents : LockedAt(i)
             /\ \A i \in EventsOf("free") : ~LockedAt(i)
        ELSE /\ ret.op \in {"receive", "recycle_rx_buffer", "alloc_tx_buffer"}
             /\ EventsOf("lock") = {}

\* a receive was served from the queue: it returned a buffer and took no lock
C16_Witness ==
    /\ ret.op = "receive" /\ ret.val = "Ok"
    /\ ev = << >>
    /\ Len(delivered) = 2

\* C17: no memory allocation is performed while the device state lock is held; in
\* receive, the buffers for the completed frames are allocated only before the
\* lock is acquired or after it is released.
C17_NoAllocUnderLock ==
    \A i \in EventsOf("alloc") : ~LockedAt(i)

\* the identities the claim names: vendor 0x8086, device 0x10D3 or 0x0DC8
IsE1000EId(id) == id[1] = 32902 /\ id[2] \in {4307, 3528}

\* C18: E1000Driver::probe_pcie claims an endpoint (starts its bring-up, and
\* returns its device unless the bring-up aborts) if and only if the vendor ID is
\* 0x8086 and the device ID is 0x10D3 or 0x0DC8; for every other endpoint it
\* returns None and does nothing else: no hardware adapter is registered, no
\* driver core is constructed, the endpoint is neither changed nor kept.
C18_ProbeFilter ==
    \A e \in DOMAIN bus : \A d \in DOMAIN registry :
        registry[d] = "E1000Driver" /\ Probed(e, d) =>
            LET ops == OpsOf(plog, e, d)
                failed == \E i \in DOMAIN ops : ops[i] = "Err"
            IN  IF IsE1000EId(bus[e].id)
                THEN /\ Len(ops) > 1 /\ ops[4] = "register_kernel"
                     /\ ~failed => Registered(e, d)
                ELSE /\ ops = << "probe_pcie" >>
                     /\ ~Registered(e, d)
                     /\ cmd[e] = UpdateCommand(bus[e].cmd0)
                     /\ ~(panicked /\ e = next_fn - 1 /\ d = Len(registry))

\* E1000Driver was shown an Intel endpoint that is not an E1000E part and one of
\* another vendor, left both alone, and claimed an 82574L
C18_Witness ==
    \E d \in DOMAIN registry : \E e1, e2 \in DOMAIN bus :
        /\ registry[d] = "E1000Driver"
        /\ bus[e1].id[1] = INTEL_VID /\ ~IsE1000EId(bus[e1].id)
        /\ Probed(e1, d) /\ ~Registered(e1, d)
        /\ Registered(e2, d)

\* C19: in every reachable state the receive buffer queue holds at most 64
\* buffers (the value of rx_queue_size): receive polls the driver core only when
\* the queue is empty and takes at most 64 frames per poll; a receive served from
\* a non-empty queue makes no driver-core call; and every receive that returns a
\* buffer removes exactly one, so that delivered, queued and pending frames add up
\* to the frames completed.
C19_QueueBounded ==
    /\ Len(rx_buffer_queue) <= rx_queue_size
    /\ rx_queue_size = 64
    /\ \A i \in EventsOf("clean_rx_irq") :
          /\ ev[i].n <= 64
          /\ Len(rx_buffer_queue) = IF ev[i].n > 0 THEN ev[i].n - 1 ELSE 0
    /\ ret.op = "receive" /\ EventsOf("clean_rx_irq") = {} =>
          /\ ev = << >>
          /\ ret.val = "Ok"
    /\ Len(delivered) + Len(rx_buffer_queue) + Len(rx_ring) = nframes

\* after a poll that took a full batch and left frames behind, a receive was
\* served from the queue: it polled nothing, and the frames left are still pending
C19_Witness ==
    /\ ret.op = "receive" /\ ev = << >>
    /\ Len(rx_buffer_queue) = rx_queue_size - 2
    /\ Len(delivered) = 2
    /\ rx_ring # << >>

\* the number of packets the last operation's clean_rx_irq returned (0 when the
\* operation did not poll)
Polled == IF EventsOf("clean_rx_irq") = {} THEN 0
          ELSE ev[CHOOSE i \in EventsOf("clean_rx_irq") : TRUE].n

\* the handles a poll made, in the order of their frames: the one receive
\* returned, then those it left in the queue
BatchHandles ==
    << CHOOSE h \in held : h.raw = ret.buf >> \o rx_buffer_queue

\* C20: every frame returned by one driver-core poll in receive becomes exactly one
\* packet buffer handle, in frame order (none dropped, none duplicated), each
\* backed by its own freshly allocated buffer whose length and bytes are those of
\* the frame's payload.
C20_OneHandlePerFrame ==
    ret.op = "receive" /\ Polled > 0 =>
        LET n == Polled
            first == Len(delivered) - 1    \* frames delivered before this poll
        IN  /\ Cardinality(EventsOf("alloc")) = n
            /\ Len(BatchHandles) = n
            /\ \A j \in 1..n :
                 LET h == BatchHandles[j]
                     frame == hw_order[first + j]
                 IN  /\ h.raw = Len(heap) - n + j
                     /\ \E i \in EventsOf("alloc") : ev[i].n = h.raw
                     /\ heap[h.raw].live
                     /\ heap[h.raw].data = frame
                     /\ h.len = Len(frame)
                     /\ Packet(heap, h) = frame

\* a poll returned a full batch of 64 frames and made 64 handles
C20_Witness ==
    /\ ret.op = "receive" /\ Polled = RX_BUDGET
    /\ Len(BatchHandles) = RX_BUDGET
    /\ Cardinality(EventsOf("alloc")) = RX_BUDGET

====
